---- MODULE Spec2Model ----
(***************************************************************************)
(* nltk/tag/stanford.py: StanfordTagger, POSTagger and NERTagger, the      *)
(* adapters that run the Stanford taggers as an external Java process.     *)
(*                                                                         *)
(* Text is modelled as a sequence of one-character strings, so that        *)
(* str.strip, str.split and str.join are computed as Python computes them. *)
(* Three symbols stand for bytes above 0x7F ("0xC3", "0xA9", "0xFF") and   *)
(* one for the code point U+00E9 ("U+00E9", encoded in UTF-8 as C3 A9).    *)
(* A byte string (str) holds ASCII characters and byte symbols; a unicode  *)
(* string holds ASCII characters and "U+00E9".                             *)
(***************************************************************************)
EXTENDS Naturals, Sequences, FiniteSets

VARIABLES
    _java_options,   \* nltk.internals._java_options: the process-wide launch options (a list of words)
    tmpfiles,        \* the temporary directory: path -> [exists, data]
    mkstemp_count,   \* how many names tempfile.mkstemp has handed out
    java_count,      \* how many times nltk.internals.java was asked to launch a process
    ctor,            \* the outcome of the latest constructor call
    tagger,          \* the adapter instances: their attributes
    pc,              \* each thread's position in batch_tag
    frame,           \* each thread's locals in batch_tag, and what it handed to its collaborators
    calls            \* how many batch_tag calls were begun

vars == <<_java_options, tmpfiles, mkstemp_count, java_count, ctor, tagger, pc, frame, calls>>

----------------------------------------------------------------------------
(* Bounds of the model. *)

MaxSentences == 2
MaxTokens == 3
MaxOutput == 4
MaxCalls == 2
MaxSpecial == 1

----------------------------------------------------------------------------
(* Python's string operations, on sequences of characters. *)

\* The characters of the model: ASCII characters (control characters other than
\* \t \n \r \f by their code, "0x0B", "0x1C", ...), the bytes "0xC2", "0xC3",
\* "0x85", "0xA0", "0xA9", "0xFF", and the code points "U+0085", "U+00A0",
\* "U+00A9", "U+00C5", "U+00E0", "U+00E9".  A str holds ASCII characters and
\* bytes, a unicode string ASCII characters and code points.

\* What str.strip() and str.split() take for whitespace: space, \t, \n, \r,
\* \x0b and \x0c.
Whitespace == {" ", "\t", "\n", "\r", "0x0B", "\f"}

\* What unicode.strip() and unicode.split() take for whitespace, among the
\* characters of the model: the six above, \x1c to \x1f, u'\x85' and u'\xa0'.
UnicodeWhitespace == Whitespace \cup {"0x1C", "0x1D", "0x1E", "0x1F", "U+0085", "U+00A0"}

\* The operations below take the whitespace of the string's type as ws.
RECURSIVE lstrip(_, _)
lstrip(s, ws) ==
    IF s = <<>> THEN s
    ELSE IF Head(s) \in ws THEN lstrip(Tail(s), ws) ELSE s

RECURSIVE rstrip(_, _)
rstrip(s, ws) ==
    IF s = <<>> THEN s
    ELSE IF s[Len(s)] \in ws THEN rstrip(SubSeq(s, 1, Len(s) - 1), ws) ELSE s

\* s.strip()
strip(s, ws) == rstrip(lstrip(s, ws), ws)

\* The length of the longest prefix of s holding no character of stop.
RECURSIVE span(_, _)
span(s, stop) ==
    IF s = <<>> \/ Head(s) \in stop THEN 0 ELSE 1 + span(Tail(s), stop)

\* s.split(sep), sep one character: every occurrence cuts, empty parts are kept.
RECURSIVE split_sep(_, _)
split_sep(s, sep) ==
    LET n == span(s, {sep})
    IN  IF n = Len(s) THEN <<s>>
        ELSE <<SubSeq(s, 1, n)>> \o split_sep(SubSeq(s, n + 2, Len(s)), sep)

\* s.split(): runs of whitespace cut, empty parts are dropped.
RECURSIVE split(_, _)
split(s, ws) ==
    LET t == lstrip(s, ws)
        n == span(t, ws)
    IN  IF t = <<>> THEN <<>>
        ELSE <<SubSeq(t, 1, n)>> \o split(SubSeq(t, n + 1, Len(t)), ws)

\* sep.join(parts)
RECURSIVE join(_, _)
join(sep, parts) ==
    IF parts = <<>> THEN <<>>
    ELSE IF Len(parts) = 1 THEN parts[1]
    ELSE parts[1] \o sep \o join(sep, Tail(parts))

----------------------------------------------------------------------------
(* Encodings. *)

NoEncoding == "None"
Encodings == {NoEncoding, "ascii", "utf-8"}

\* The bytes above 0x7F: two UTF-8 lead bytes, three continuation bytes, and a
\* byte that occurs in no UTF-8 text.
LeadBytes == {"0xC2", "0xC3"}
ContinuationBytes == {"0x85", "0xA0", "0xA9"}
HighBytes == LeadBytes \cup ContinuationBytes \cup {"0xFF"}

\* The code points above U+007F: those the pairs of a lead and a continuation
\* byte encode.
UnicodePoints == {"U+0085", "U+00A0", "U+00A9", "U+00C5", "U+00E0", "U+00E9"}

\* c.encode('utf-8')
utf8(c) ==
    CASE c = "U+0085" -> <<"0xC2", "0x85">>
      [] c = "U+00A0" -> <<"0xC2", "0xA0">>
      [] c = "U+00A9" -> <<"0xC2", "0xA9">>
      [] c = "U+00C5" -> <<"0xC3", "0x85">>
      [] c = "U+00E0" -> <<"0xC3", "0xA0">>
      [] c = "U+00E9" -> <<"0xC3", "0xA9">>

NonAscii == HighBytes \cup UnicodePoints

\* Whether text.encode(encoding) raises UnicodeEncodeError, text a unicode
\* string; no encoding is the implicit ASCII conversion of file.write(unicode).
encode_fails(text, encoding) ==
    /\ encoding # "utf-8"
    /\ \E i \in 1..Len(text) : text[i] \in NonAscii

\* text.encode(encoding), where it does not raise.
RECURSIVE encode(_, _)
encode(text, encoding) ==
    IF text = <<>> THEN <<>>
    ELSE IF Head(text) \in UnicodePoints /\ encoding = "utf-8"
         THEN utf8(Head(text)) \o encode(Tail(text), encoding)
         ELSE <<Head(text)>> \o encode(Tail(text), encoding)

\* Whether bytes.decode(encoding) raises UnicodeDecodeError: ASCII accepts no
\* byte above 0x7F, UTF-8 a lead byte followed by a continuation byte.
RECURSIVE decode_fails(_, _)
decode_fails(bytes, encoding) ==
    IF bytes = <<>> THEN FALSE
    ELSE IF Head(bytes) \notin NonAscii THEN decode_fails(Tail(bytes), encoding)
    ELSE IF /\ encoding = "utf-8" /\ Len(bytes) >= 2
            /\ bytes[1] \in LeadBytes /\ bytes[2] \in ContinuationBytes
         THEN decode_fails(Tail(Tail(bytes)), encoding)
         ELSE TRUE

\* bytes.decode(encoding), where it does not raise.
RECURSIVE decode(_, _)
decode(bytes, encoding) ==
    IF bytes = <<>> THEN <<>>
    ELSE IF Head(bytes) \in LeadBytes
         THEN <<CHOOSE c \in UnicodePoints : utf8(c) = SubSeq(bytes, 1, 2)>>
              \o decode(Tail(Tail(bytes)), encoding)
         ELSE <<Head(bytes)>> \o decode(Tail(bytes), encoding)

----------------------------------------------------------------------------
(* The two profiles. *)

Classes == {"POSTagger", "NERTagger"}

_SEPARATOR(cls) == IF cls = "POSTagger" THEN "_" ELSE "/"

_JAR(cls) == IF cls = "POSTagger" THEN "stanford-postagger.jar" ELSE "stanford-ner.jar"

\* A slip: one fixed input file for every call.
_cmd_fixed_path(self) ==
    <<"edu.stanford.nlp.tagger.maxent.MaxentTagger",
      "-model", self._stanford_model, "-textFile", "/tmp/tmp1", "-tokenize", "false">>

\* The _cmd property: a new list at every read, built from the instance's attributes.
_cmd(self) ==
    IF self.cls = "POSTagger"
    THEN <<"edu.stanford.nlp.tagger.maxent.MaxentTagger",
           "-model", self._stanford_model, "-textFile",
           self._input_file_path, "-tokenize", "false">>
    ELSE <<"edu.stanford.nlp.ie.crf.CRFClassifier",
           "-loadClassifier", self._stanford_model, "-textFile",
           self._input_file_path, "-outputFormat", "slashTags">>

----------------------------------------------------------------------------
(* The collaborators of the adapter: the file system, nltk.internals and  *)
(* the external tool.                                                     *)

ModelFiles == {"english.tagger"}
ModelPaths == ModelFiles \cup {"missing.tagger"}

JarFiles == {"/opt/stanford.jar"}
JarPaths == JarFiles \cup {"/no/such.jar"}

\* os.path.isfile(path_to_model)
isfile(path) == path \in ModelFiles

\* nltk.internals.find_jar: the jar's path, or LookupError.
find_jar_fails(path_to_jar) == path_to_jar \notin JarFiles

\* nltk.internals.config_java(options=...): a string of options is split into words.
config_java(options) == split(options, Whitespace)

TmpNames == <<"/tmp/tmp1", "/tmp/tmp2", "/tmp/tmp3", "/tmp/tmp4", "/tmp/tmp5", "/tmp/tmp6">>
TmpPaths == {TmpNames[i] : i \in 1..Len(TmpNames)}

NoFile == [exists |-> FALSE, data |-> <<>>]

DUMMY == <<"D", "U", "M", "M", "Y">>

\* The lines of a text file: a final newline ends the last line, it opens no new one.
file_lines(data) ==
    LET parts == split_sep(data, "\n")
    IN  IF parts[Len(parts)] = <<>> THEN SubSeq(parts, 1, Len(parts) - 1) ELSE parts

\* The stub tool of the round trip: token<SEP>DUMMY for every token of a line,
\* space-joined, one output line per input line.
RECURSIVE echo_words(_, _)
echo_words(words, sep) ==
    IF words = <<>> THEN <<>>
    ELSE <<Head(words) \o <<sep>> \o DUMMY>> \o echo_words(Tail(words), sep)

RECURSIVE echo_lines(_, _)
echo_lines(lines, sep) ==
    IF lines = <<>> THEN <<>>
    ELSE join(<<" ">>, echo_words(split(Head(lines), Whitespace), sep)) \o <<"\n">>
         \o echo_lines(Tail(lines), sep)

echo(data, sep) == echo_lines(file_lines(data), sep)

\* The separator the tool named by a command writes between a token and its tag.
tool_separator(cmd) ==
    IF cmd[1] = "edu.stanford.nlp.tagger.maxent.MaxentTagger" THEN "_" ELSE "/"

\* nltk.internals.java(cmd, classpath, stdout=PIPE, stderr=PIPE): what the call
\* gives back when the external tool behaves as `tool` on the files `files`.
java(cmd, files, tool) ==
    LET input == files[cmd[5]]
    IN  CASE tool.kind = "launch_error" -> [exc |-> "ProcessLaunchError", stdout |-> <<>>]
          [] tool.kind = "exit_nonzero" -> [exc |-> "ProcessExecutionError", stdout |-> <<>>]
          [] tool.kind = "output" -> [exc |-> "none", stdout |-> tool.out]
          [] OTHER ->
               IF input.exists
               THEN [exc |-> "none", stdout |-> echo(input.data, tool_separator(cmd))]
               ELSE [exc |-> "ProcessExecutionError", stdout |-> <<>>]

EchoTool == [kind |-> "echo", out |-> <<>>]
LaunchError == [kind |-> "launch_error", out |-> <<>>]
ExitNonzero == [kind |-> "exit_nonzero", out |-> <<>>]

----------------------------------------------------------------------------
(* StanfordTagger.__init__ *)

NoTagger ==
    [cls |-> "none", _stanford_jar |-> "", _stanford_model |-> "", _encoding |-> NoEncoding,
     java_options |-> <<>>, _input_file_path |-> ""]

AdapterIds == {1, 2}
ThreadIds == {1, 2}

\* A slip: the model file checked before the jar is looked for.
init_exc_model_first(args) ==
    IF ~isfile(args.path_to_model) THEN "IOError"
    ELSE IF find_jar_fails(args.path_to_jar) THEN "LookupError"
    ELSE "none"

\* The exception the constructor raises, "none" when it returns.
init_exc(args) ==
    IF find_jar_fails(args.path_to_jar) THEN "LookupError"
    ELSE IF ~isfile(args.path_to_model) THEN "IOError"
    ELSE "none"

\* The attributes the constructor leaves on the instance.
init_self(args) ==
    [cls |-> args.cls, _stanford_jar |-> args.path_to_jar,
     _stanford_model |-> args.path_to_model, _encoding |-> args.encoding,
     java_options |-> args.java_options, _input_file_path |-> ""]

Construct(a, argset) ==
    /\ tagger[a].cls = "none"
    /\ \E args \in argset :
         /\ ctor' = [self |-> a, args |-> args, exc |-> init_exc(args)]
         /\ tagger' = IF init_exc(args) = "none"
                      THEN [tagger EXCEPT ![a] = init_self(args)]
                      ELSE tagger
    /\ UNCHANGED <<_java_options, tmpfiles, mkstemp_count, java_count, pc, frame, calls>>

----------------------------------------------------------------------------
(* StanfordTagger.batch_tag, statement by statement. *)

NoFrame ==
    [self |-> 0, sentences |-> <<>>, encoding |-> NoEncoding, default_options |-> <<>>,
     entry_options |-> <<>>, _input_fh |-> "", stanpos_output |-> <<>>,
     tagged_sentences |-> <<>>, exc |-> "none",
     mkstemp_ret |-> "", java_cmd |-> <<>>, launched |-> FALSE, launch_options |-> <<>>,
     unlink_arg |-> "", unlinked |-> "", shared |-> FALSE]

\* A token: a str or a unicode string, and its characters.
str(text) == [unicode |-> FALSE, text |-> text]
unicode(text) == [unicode |-> TRUE, text |-> text]

\* The characters of the tokens of a sentence.
texts(x) == [j \in 1..Len(x) |-> x[j].text]

\* ' '.join(x) for x in sentences
RECURSIVE join_each(_)
join_each(sentences) ==
    IF sentences = <<>> THEN <<>>
    ELSE <<join(<<" ">>, texts(Head(sentences)))>> \o join_each(Tail(sentences))

\* isinstance(_input, unicode): a join over a unicode token gives unicode.
isunicode(sentences) ==
    \E i \in 1..Len(sentences) : \E j \in 1..Len(sentences[i]) : sentences[i][j].unicode

\* Line 69 raises UnicodeDecodeError: joined with a unicode token, every str
\* token is decoded as ASCII.
serialize_fails(sentences) ==
    /\ isunicode(sentences)
    /\ \E i \in 1..Len(sentences) : \E j \in 1..Len(sentences[i]) :
          /\ ~sentences[i][j].unicode
          /\ \E k \in 1..Len(sentences[i][j].text) : sentences[i][j].text[k] \in HighBytes

\* A slip: the sentences joined by a space, like the tokens.
serialize_on_one_line(sentences) == join(<<" ">>, join_each(sentences))

\* Line 69, where it does not raise: '\n'.join((' '.join(x) for x in sentences))
serialize(sentences) == join(<<"\n">>, join_each(sentences))

\* Lines 70-72: whether encoding or writing _input raises UnicodeEncodeError.
write_fails(_input, is_unicode, encoding) == is_unicode /\ encode_fails(_input, encoding)

\* Lines 70-72: the bytes that reach the file.
written(_input, is_unicode, encoding) ==
    IF is_unicode /\ encoding # NoEncoding THEN encode(_input, encoding) ELSE _input

\* The command line 76 hands to nltk.internals.java: a fresh read of the _cmd
\* property (the list line 65 extended was another one, already dropped).
java_cmd(self, encoding) == _cmd(self)

\* A slip: the line cut at every single space instead of at runs of whitespace.
parse_sentence_on_spaces(tagged_sentence, sep, ws) ==
    LET words == split_sep(strip(tagged_sentence, ws), " ")
    IN  [i \in 1..Len(words) |-> split_sep(strip(words[i], ws), sep)]

\* Lines 90-91: one line of the output.
parse_sentence(tagged_sentence, sep, ws) ==
    LET words == split(strip(tagged_sentence, ws), ws)
    IN  [i \in 1..Len(words) |-> split_sep(strip(words[i], ws), sep)]

\* Lines 88-93
parse_output(stanpos_output, sep, ws) ==
    LET lines == split_sep(strip(stanpos_output, ws), "\n")
    IN  [i \in 1..Len(lines) |-> parse_sentence(lines[i], sep, ws)]

\* The type of stanpos_output at line 88: unicode once line 79 has decoded it,
\* str otherwise.
whitespace(encoding) == IF encoding = NoEncoding THEN Whitespace ELSE UnicodeWhitespace

\* An exception leaves batch_tag at once: nothing after the raising statement runs.
Raise(t, exc) ==
    /\ pc' = [pc EXCEPT ![t] = "raised"]
    /\ frame' = [frame EXCEPT ![t].exc = exc]

\* Whether thread o is inside batch_tag on adapter a.
InFlight(o, a) == pc[o] \notin {"idle", "done", "raised"} /\ frame[o].self = a

\* Lines 57-58: the call begins; the current launch options are saved as one string.
\* Some fields of the frame are not locals of the code.  History: entry_options
\* (the launch options at entry), shared (another call on the same instance was
\* in flight during this one), launch_options (what the launcher read) and
\* unlinked (the path deleted).  Values held between two steps of one statement:
\* mkstemp_ret (what mkstemp returned, before line 62 assigns it), java_cmd
\* (the evaluated argument of line 76), launched (the process is running) and
\* unlink_arg (the evaluated argument of line 82).
Call(t, a, batches, limit) ==
    /\ pc[t] = "idle"
    /\ calls < limit
    /\ tagger[a].cls # "none"
    /\ \E sentences \in batches :
         frame' = [o \in ThreadIds |->
                      IF o = t
                      THEN [NoFrame EXCEPT !.self = a, !.sentences = sentences,
                                           !.encoding = tagger[a]._encoding,
                                           !.default_options = join(<<" ">>, _java_options),
                                           !.entry_options = _java_options,
                                           !.shared = \E u \in ThreadIds \ {t} : InFlight(u, a)]
                      ELSE IF InFlight(o, a) THEN [frame[o] EXCEPT !.shared = TRUE]
                      ELSE frame[o]]
    /\ pc' = [pc EXCEPT ![t] = "config_java"]
    /\ calls' = calls + 1
    /\ UNCHANGED <<_java_options, tmpfiles, mkstemp_count, java_count, ctor, tagger>>

\* Line 59: the adapter's options become the process-wide launch options.
ConfigJava(t) ==
    /\ pc[t] = "config_java"
    /\ _java_options' = config_java(tagger[frame[t].self].java_options)
    /\ pc' = [pc EXCEPT ![t] = "mkstemp"]
    /\ UNCHANGED <<tmpfiles, mkstemp_count, java_count, ctor, tagger, frame, calls>>

\* Line 62, the call: tempfile.mkstemp makes a new empty file.
Mkstemp(t) ==
    /\ pc[t] = "mkstemp"
    /\ frame[t].mkstemp_ret = ""
    /\ mkstemp_count < Len(TmpNames)
    /\ LET path == TmpNames[mkstemp_count + 1]
       IN  /\ tmpfiles' = [tmpfiles EXCEPT ![path] = [exists |-> TRUE, data |-> <<>>]]
           /\ frame' = [frame EXCEPT ![t].mkstemp_ret = path]
    /\ mkstemp_count' = mkstemp_count + 1
    /\ UNCHANGED <<_java_options, java_count, ctor, tagger, pc, calls>>

\* Line 62, the assignment: the descriptor goes to the local _input_fh, the path
\* to the instance.
MkstempStore(t) ==
    /\ pc[t] = "mkstemp"
    /\ frame[t].mkstemp_ret # ""
    /\ tagger' = [tagger EXCEPT ![frame[t].self]._input_file_path = frame[t].mkstemp_ret]
    /\ frame' = [frame EXCEPT ![t]._input_fh = frame[t].mkstemp_ret]
    /\ pc' = [pc EXCEPT ![t] = "write"]
    /\ UNCHANGED <<_java_options, tmpfiles, mkstemp_count, java_count, ctor, calls>>

\* Lines 64-73: the sentences are written through the descriptor mkstemp returned.
Write(t) ==
    /\ pc[t] = "write"
    /\ LET sentences == frame[t].sentences
           _input == serialize(sentences)
           fh == frame[t]._input_fh
       IN  IF serialize_fails(sentences)
           THEN /\ Raise(t, "UnicodeDecodeError")
                /\ UNCHANGED tmpfiles
           ELSE IF write_fails(_input, isunicode(sentences), frame[t].encoding)
           THEN /\ Raise(t, "UnicodeEncodeError")
                /\ UNCHANGED tmpfiles
           ELSE /\ tmpfiles' = IF tmpfiles[fh].exists
                               THEN [tmpfiles EXCEPT ![fh].data =
                                        written(_input, isunicode(sentences), frame[t].encoding)]
                               ELSE tmpfiles
                /\ pc' = [pc EXCEPT ![t] = "java"]
                /\ UNCHANGED frame
    /\ UNCHANGED <<_java_options, mkstemp_count, java_count, ctor, tagger, calls>>

\* Line 76, the arguments: self._cmd is evaluated, from the path the instance
\* holds at this moment.
JavaArgs(t) ==
    /\ pc[t] = "java"
    /\ frame[t].java_cmd = <<>>
    /\ frame' = [frame EXCEPT ![t].java_cmd = java_cmd(tagger[frame[t].self], frame[t].encoding)]
    /\ UNCHANGED <<_java_options, tmpfiles, mkstemp_count, java_count, ctor, tagger, pc, calls>>

\* Line 76, the call: nltk.internals.java reads the launch options of this
\* moment and starts the process, or cannot.  The thread then stays inside
\* line 76 until the process exits, while other threads run.
Java(t, tools) ==
    /\ pc[t] = "java"
    /\ frame[t].java_cmd # <<>>
    /\ ~frame[t].launched
    /\ \E tool \in tools :
         IF tool.kind = "launch_error"
         THEN /\ frame' = [frame EXCEPT ![t].launch_options = _java_options,
                                        ![t].exc = java(frame[t].java_cmd, tmpfiles, tool).exc]
              /\ pc' = [pc EXCEPT ![t] = "raised"]
         ELSE /\ frame' = [frame EXCEPT ![t].launch_options = _java_options,
                                        ![t].launched = TRUE]
              /\ UNCHANGED pc
    /\ java_count' = java_count + 1
    /\ UNCHANGED <<_java_options, tmpfiles, mkstemp_count, ctor, tagger, calls>>

\* Lines 76-77, the return: the process reads the file its command names, as
\* the file is at this moment, writes its output and exits; the call gives the
\* output back or raises.
JavaExit(t, tools) ==
    /\ pc[t] = "java"
    /\ frame[t].launched
    /\ \E tool \in tools :
         /\ tool.kind # "launch_error"
         /\ LET r == java(frame[t].java_cmd, tmpfiles, tool)
            IN  /\ frame' = [frame EXCEPT ![t].stanpos_output = r.stdout,
                                          ![t].exc = r.exc]
                /\ pc' = [pc EXCEPT ![t] = IF r.exc = "none" THEN "decode" ELSE "raised"]
    /\ UNCHANGED <<_java_options, tmpfiles, mkstemp_count, java_count, ctor, tagger, calls>>

\* Lines 78-79
Decode(t) ==
    /\ pc[t] = "decode"
    /\ LET out == frame[t].stanpos_output
           encoding == frame[t].encoding
       IN  IF encoding = NoEncoding
           THEN /\ pc' = [pc EXCEPT ![t] = "unlink"]
                /\ UNCHANGED frame
           ELSE IF decode_fails(out, encoding)
           THEN Raise(t, "UnicodeDecodeError")
           ELSE /\ pc' = [pc EXCEPT ![t] = "unlink"]
                /\ frame' = [frame EXCEPT ![t].stanpos_output = decode(out, encoding)]
    /\ UNCHANGED <<_java_options, tmpfiles, mkstemp_count, java_count, ctor, tagger, calls>>

\* Line 82, the argument: the path the instance holds at this moment.
UnlinkArg(t) ==
    /\ pc[t] = "unlink"
    /\ frame[t].unlink_arg = ""
    /\ frame' = [frame EXCEPT ![t].unlink_arg = tagger[frame[t].self]._input_file_path]
    /\ UNCHANGED <<_java_options, tmpfiles, mkstemp_count, java_count, ctor, tagger, pc, calls>>

\* Line 82, the call: os.unlink deletes the file of that path, or raises.
Unlink(t) ==
    /\ pc[t] = "unlink"
    /\ frame[t].unlink_arg # ""
    /\ LET path == frame[t].unlink_arg
       IN  IF tmpfiles[path].exists
           THEN /\ tmpfiles' = [tmpfiles EXCEPT ![path] = NoFile]
                /\ frame' = [frame EXCEPT ![t].unlinked = path]
                /\ pc' = [pc EXCEPT ![t] = "restore"]
           ELSE /\ Raise(t, "OSError")
                /\ UNCHANGED tmpfiles
    /\ UNCHANGED <<_java_options, mkstemp_count, java_count, ctor, tagger, calls>>

\* A slip: the launch options reset to nltk's initial empty list.
Restore_to_empty(t) ==
    /\ pc[t] = "restore"
    /\ _java_options' = <<>>
    /\ pc' = [pc EXCEPT ![t] = "parse"]
    /\ UNCHANGED <<tmpfiles, mkstemp_count, java_count, ctor, tagger, frame, calls>>

\* Line 85: the saved string is handed back to config_java.
Restore(t) ==
    /\ pc[t] = "restore"
    /\ _java_options' = config_java(frame[t].default_options)
    /\ pc' = [pc EXCEPT ![t] = "parse"]
    /\ UNCHANGED <<tmpfiles, mkstemp_count, java_count, ctor, tagger, frame, calls>>

\* Lines 88-93
Parse(t) ==
    /\ pc[t] = "parse"
    /\ frame' = [frame EXCEPT ![t].tagged_sentences =
                    parse_output(frame[t].stanpos_output,
                                 _SEPARATOR(tagger[frame[t].self].cls),
                                 whitespace(frame[t].encoding))]
    /\ pc' = [pc EXCEPT ![t] = "done"]
    /\ UNCHANGED <<_java_options, tmpfiles, mkstemp_count, java_count, ctor, tagger, calls>>

\* The caller takes the result, or the exception, and the thread is free again.
Return(t) ==
    /\ pc[t] \in {"done", "raised"}
    /\ pc' = [pc EXCEPT ![t] = "idle"]
    /\ frame' = [frame EXCEPT ![t] = NoFrame]
    /\ UNCHANGED <<_java_options, tmpfiles, mkstemp_count, java_count, ctor, tagger, calls>>

----------------------------------------------------------------------------
(* The inputs the specifications draw from. *)

\* java_options='-mx1000m', the constructor's default, and a string of two options.
DefaultJavaOptions == <<"-", "m", "x", "1", "0", "0", "0", "m">>
OtherJavaOptions == <<"-", "e", "a", " ", "-", "m", "x", "2", "g">>

\* The launch options a process may hold before a call: nltk's initial empty
\* list, or what an earlier config_java(options='-Xmx512m') left.
InitialOptions == {<<>>, <<<<"-", "X", "m", "x", "5", "1", "2", "m">>>>}

CtorArgs ==
    [cls : Classes, path_to_model : ModelPaths, path_to_jar : JarPaths,
     encoding : Encodings, java_options : {DefaultJavaOptions, OtherJavaOptions}]

\* The constructor calls that succeed with the default java_options.
PlainCtorArgs ==
    {args \in CtorArgs : init_exc(args) = "none" /\ args.java_options = DefaultJavaOptions}

\* The sequences of n elements of which exactly i are drawn from rare, the
\* others from common.
RECURSIVE SeqsOf(_, _, _, _)
SeqsOf(common, rare, n, i) ==
    IF n = 0 THEN (IF i = 0 THEN {<<>>} ELSE {})
    ELSE {<<x>> \o s : x \in common, s \in SeqsOf(common, rare, n - 1, i)}
         \cup (IF i = 0 THEN {}
               ELSE {<<x>> \o s : x \in rare, s \in SeqsOf(common, rare, n - 1, i - 1)})

\* Tokens: two plain words; and the special ones: the empty string, a token
\* holding a space, one holding each separator, the unicode token u'\xe9', and
\* the str token '\xc3\xa9', the UTF-8 bytes of u'\xe9'.
PlainWords == {str(<<"a">>), str(<<"b">>)}
SpecialTokens ==
    {str(<<>>), str(<<"a", " ", "b">>), str(<<"_">>), str(<<"/">>), unicode(<<"U+00E9">>),
     str(<<"0xC3", "0xA9">>)}
Tokens == PlainWords \cup SpecialTokens

\* The batches of n sentences holding at most m tokens in all, at most k of
\* them special.
RECURSIVE BatchesOf(_, _, _)
BatchesOf(n, m, k) ==
    IF n = 0 THEN {<<>>}
    ELSE UNION {{<<s>> \o b : s \in SeqsOf(PlainWords, SpecialTokens, j, i),
                              b \in BatchesOf(n - 1, m - j, k - i)} :
                j \in 0..m, i \in 0..k}

Batches == UNION {BatchesOf(n, MaxTokens, MaxSpecial) : n \in 0..MaxSentences}

\* More batches: a str token of high bytes and a unicode token in one sentence,
\* and in two; the unicode token u'a'; '\x1c', which is whitespace in a
\* unicode string only; '\xff', which no encoding decodes.
MoreBatches ==
    {<<<<str(<<"0xC3", "0xA9">>), unicode(<<"U+00E9">>)>>>>,
     <<<<unicode(<<"a">>)>>, <<str(<<"0xC3", "0xA9">>)>>>>,
     <<<<unicode(<<"a">>)>>>>,
     <<<<str(<<"b">>), unicode(<<"a">>)>>, <<str(<<"a">>)>>>>,
     <<<<str(<<"0x1C">>)>>>>,
     <<<<str(<<"a">>), str(<<"0x1C">>)>>, <<str(<<"b">>)>>>>,
     <<<<str(<<"0xFF">>)>>>>}

EchoBatches == Batches \cup MoreBatches

\* No sentence, one word, two words, a unicode token, a str token of a high
\* byte, and the two in one sentence.
SmallBatches ==
    {<<>>, <<<<str(<<"a">>)>>>>, <<<<str(<<"a">>), str(<<"b">>)>>>>,
     <<<<unicode(<<"U+00E9">>)>>>>, <<<<str(<<"0xFF">>)>>>>,
     <<<<str(<<"0xFF">>), unicode(<<"U+00E9">>)>>>>}

OneBatch == {<<<<str(<<"a">>)>>>>}

\* What a tool may print: every byte string of at most MaxOutput characters over
\* a letter, the profile's separator, a space and a newline, at most MaxSpecial
\* of its characters being a carriage return, a tab, '\x1c' or a byte no
\* encoding accepts.
OutputAlphabet(sep) == {"a", sep, " ", "\n"}
SpecialOutput == {"\r", "\t", "0x1C", "0xFF"}

Strings(sep) ==
    UNION {SeqsOf(OutputAlphabet(sep), SpecialOutput, n, i) : n \in 0..MaxOutput, i \in 0..MaxSpecial}

OutputTools(sep) == {[kind |-> "output", out |-> o] : o \in Strings(sep)}

\* A tool that prints a byte no encoding accepts.
BadOutput == [kind |-> "output", out |-> <<"a", "0xFF">>]

\* The tool echoes, cannot be launched, exits nonzero, or prints undecodable bytes.
AllTools == {EchoTool, LaunchError, ExitNonzero, BadOutput}

EchoOnly == {EchoTool}

----------------------------------------------------------------------------
(* The specifications. *)

InitWith(options) ==
    /\ _java_options \in options
    /\ tmpfiles = [p \in TmpPaths |-> NoFile]
    /\ mkstemp_count = 0
    /\ java_count = 0
    /\ ctor = [self |-> 0, args |-> CHOOSE args \in PlainCtorArgs : TRUE, exc |-> "none"]
    /\ tagger = [a \in AdapterIds |-> NoTagger]
    /\ pc = [t \in ThreadIds |-> "idle"]
    /\ frame = [t \in ThreadIds |-> NoFrame]
    /\ calls = 0

\* One thread, one adapter, every constructor call, tools that fail or echo.
Init == InitWith(InitialOptions)

Next ==
    \/ Construct(1, CtorArgs)
    \/ Call(1, 1, SmallBatches, MaxCalls)
    \/ ConfigJava(1)
    \/ Mkstemp(1)
    \/ MkstempStore(1)
    \/ Write(1)
    \/ JavaArgs(1)
    \/ Java(1, AllTools)
    \/ JavaExit(1, AllTools)
    \/ Decode(1)
    \/ UnlinkArg(1)
    \/ Unlink(1)
    \/ Restore(1)
    \/ Parse(1)
    \/ Return(1)

Spec == Init /\ [][Next]_vars

\* One call against a tool that may print anything.
InitParse == InitWith({<<>>})

NextParse ==
    \/ Construct(1, PlainCtorArgs)
    \/ Call(1, 1, OneBatch, 1)
    \/ ConfigJava(1)
    \/ Mkstemp(1)
    \/ MkstempStore(1)
    \/ Write(1)
    \/ JavaArgs(1)
    \/ Java(1, OutputTools(_SEPARATOR(tagger[1].cls)))
    \/ JavaExit(1, OutputTools(_SEPARATOR(tagger[1].cls)))
    \/ Decode(1)
    \/ UnlinkArg(1)
    \/ Unlink(1)
    \/ Restore(1)
    \/ Parse(1)
    \/ Return(1)

SpecParse == InitParse /\ [][NextParse]_vars

\* One call, of any batch, against the echoing stub.
NextEcho ==
    \/ Construct(1, PlainCtorArgs)
    \/ Call(1, 1, EchoBatches, 1)
    \/ ConfigJava(1)
    \/ Mkstemp(1)
    \/ MkstempStore(1)
    \/ Write(1)
    \/ JavaArgs(1)
    \/ Java(1, EchoOnly)
    \/ JavaExit(1, EchoOnly)
    \/ Decode(1)
    \/ UnlinkArg(1)
    \/ Unlink(1)
    \/ Restore(1)
    \/ Parse(1)
    \/ Return(1)

SpecEcho == InitParse /\ [][NextEcho]_vars

\* Two threads and two adapter instances, built beforehand with either
\* java_options; each call is on either instance, against the echoing stub.
RaceCtorArgs ==
    {args \in CtorArgs : /\ init_exc(args) = "none"
                         /\ args.cls = "POSTagger"
                         /\ args.encoding = NoEncoding}

InitRace ==
    /\ _java_options = <<>>
    /\ tmpfiles = [p \in TmpPaths |-> NoFile]
    /\ mkstemp_count = 0
    /\ java_count = 0
    /\ ctor = [self |-> 0, args |-> CHOOSE args \in PlainCtorArgs : TRUE, exc |-> "none"]
    /\ tagger \in [AdapterIds -> {init_self(args) : args \in RaceCtorArgs}]
    /\ pc = [t \in ThreadIds |-> "idle"]
    /\ frame = [t \in ThreadIds |-> NoFrame]
    /\ calls = 0

NextRace ==
    \E t \in ThreadIds :
        \/ \E a \in AdapterIds : Call(t, a, OneBatch, MaxCalls)
        \/ ConfigJava(t)
        \/ Mkstemp(t)
        \/ MkstempStore(t)
        \/ Write(t)
        \/ JavaArgs(t)
        \/ Java(t, EchoOnly)
        \/ JavaExit(t, EchoOnly)
        \/ Decode(t)
        \/ UnlinkArg(t)
        \/ Unlink(t)
        \/ Restore(t)
        \/ Parse(t)
        \/ Return(t)

SpecRace == InitRace /\ [][NextRace]_vars

----------------------------------------------------------------------------
(* The claims. *)

Returned(t) == pc[t] \in {"done", "raised"}

\* The call has returned, or has failed at the launch, at the exit of the
\* process or at the decoding of its output.
ReturnedOrFailedAfterLaunch(t) ==
    \/ pc[t] = "done"
    \/ /\ pc[t] = "raised"
       /\ frame[t].java_cmd # <<>>
       /\ frame[t].exc \in {"ProcessLaunchError", "ProcessExecutionError", "UnicodeDecodeError"}

\* C1: whenever batch_tag has returned, or has failed with a launch or execution
\* error of the process or a decoding error on its output, the process-wide
\* launch options equal the value they had when the call began.
C1_LaunchOptionsRestored ==
    \A t \in ThreadIds :
        ReturnedOrFailedAfterLaunch(t) => _java_options = frame[t].entry_options

\* C2: whenever batch_tag has returned or raised, the temporary file the call
\* created no longer exists.
C2_TempFileDeleted ==
    \A t \in ThreadIds :
        Returned(t) /\ frame[t]._input_fh # "" => ~tmpfiles[frame[t]._input_fh].exists

NonEmptySentences(sentences) ==
    /\ Len(sentences) >= 1
    /\ \A i \in 1..Len(sentences) : Len(sentences[i]) >= 1

\* The token as batch_tag gives it back: a str token comes back decoded when the
\* adapter has an encoding (line 79), every other token as it is.
returned_token(tk, encoding) ==
    IF ~tk.unicode /\ encoding # NoEncoding THEN decode(tk.text, encoding) ELSE tk.text

\* As many tagged sentences as sentences, as many elements in each as tokens,
\* and the tokens first in each element, in order; a str token may come back
\* as the unicode string its bytes decode to.
SameTokens(sentences, tagged, encoding) ==
    /\ Len(tagged) = Len(sentences)
    /\ \A i \in 1..Len(sentences) :
         /\ Len(tagged[i]) = Len(sentences[i])
         /\ \A j \in 1..Len(sentences[i]) :
              \/ tagged[i][j][1] = sentences[i][j].text
              \/ /\ ~sentences[i][j].unicode /\ encoding # NoEncoding
                 /\ ~decode_fails(sentences[i][j].text, encoding)
                 /\ tagged[i][j][1] = returned_token(sentences[i][j], encoding)

\* C3, as stated: every batch of N >= 1 non-empty sentences comes back from the
\* echoing tool as N tagged sentences with the same tokens in the same order.
C3_RoundTrip ==
    \A t \in ThreadIds :
        Returned(t) /\ NonEmptySentences(frame[t].sentences)
        => /\ pc[t] = "done"
           /\ SameTokens(frame[t].sentences, frame[t].tagged_sentences, frame[t].encoding)

\* A token the round trip carries, in a batch that is mixed (holds a unicode
\* token) or not:
\*  - it is not empty;
\*  - a str token with a byte above 0x7F stands in a batch without unicode
\*    tokens, and its bytes decode under the adapter's encoding, if any;
\*  - a unicode token with a code point above U+007F has an adapter whose
\*    encoding encodes it;
\*  - as given back, it holds no separator of the profile and nothing that
\*    lines 88-91 take for whitespace.
PlainToken(tk, sep, encoding, mixed) ==
    /\ tk.text # <<>>
    /\ ~tk.unicode /\ (\E k \in 1..Len(tk.text) : tk.text[k] \in NonAscii)
       => ~mixed /\ (encoding = NoEncoding \/ ~decode_fails(tk.text, encoding))
    /\ tk.unicode => ~encode_fails(tk.text, encoding)
    /\ LET text == returned_token(tk, encoding)
       IN  \A k \in 1..Len(text) : text[k] \notin whitespace(encoding) \cup {sep}

PlainSentences(f) ==
    \A i \in 1..Len(f.sentences) : \A j \in 1..Len(f.sentences[i]) :
        PlainToken(f.sentences[i][j], _SEPARATOR(tagger[f.self].cls), f.encoding,
                   isunicode(f.sentences))

\* C3, amended: with an adapter that has no encoding, or the encoding 'ascii'
\* or 'utf-8', every batch of N >= 1 non-empty sentences whose tokens are
\* non-empty, include a str token with a byte above 0x7F only if no token of
\* the batch is unicode and the adapter's encoding, if any, decodes it, include
\* a unicode token with a code point above U+007F only if the encoding is
\* 'utf-8', and hold - as given back - no separator character of the profile
\* and no character that is whitespace in the output string (str without an
\* encoding, unicode with one), comes back from the echoing tool as N tagged
\* sentences, the i-th holding one (token, DUMMY) pair per token of the i-th
\* sentence, in order, where a str token comes back decoded by the adapter's
\* encoding, if any, and every other token as it is.
C3_RoundTripOfPlainTokens ==
    \A t \in ThreadIds :
        /\ Returned(t)
        /\ NonEmptySentences(frame[t].sentences)
        /\ PlainSentences(frame[t])
        => /\ pc[t] = "done"
           /\ Len(frame[t].tagged_sentences) = Len(frame[t].sentences)
           /\ \A i \in 1..Len(frame[t].sentences) :
                /\ Len(frame[t].tagged_sentences[i]) = Len(frame[t].sentences[i])
                /\ \A j \in 1..Len(frame[t].sentences[i]) :
                     frame[t].tagged_sentences[i][j]
                       = <<returned_token(frame[t].sentences[i][j], frame[t].encoding), DUMMY>>

\* A batch of two plain sentences has come back from a utf-8 adapter, one
\* sentence of two different tokens, the second the str '\xc3\xa9', given
\* back as u'\xe9'.
C3_Witness ==
    \E t \in ThreadIds :
        /\ pc[t] = "done"
        /\ frame[t].encoding = "utf-8"
        /\ Len(frame[t].sentences) = 2
        /\ NonEmptySentences(frame[t].sentences)
        /\ PlainSentences(frame[t])
        /\ \E i \in 1..2 : /\ Len(frame[t].sentences[i]) = 2
                           /\ frame[t].sentences[i][1] = str(<<"a">>)
                           /\ frame[t].sentences[i][2] = str(<<"0xC3", "0xA9">>)
                           /\ frame[t].tagged_sentences[i][2] = <<<<"U+00E9">>, DUMMY>>

\* C4: a call with no sentence returns the empty list.
C4_EmptyBatch ==
    \A t \in ThreadIds :
        Returned(t) /\ frame[t].sentences = <<>>
        => pc[t] = "done" /\ frame[t].tagged_sentences = <<>>

\* C5: the command handed to the launcher is the profile's command, followed by
\* '-encoding' and the encoding's name when the adapter has an encoding.
C5_EncodingArgument ==
    \A t \in ThreadIds :
        frame[t].java_cmd # <<>>
        => frame[t].java_cmd =
              IF frame[t].encoding = NoEncoding
              THEN _cmd(tagger[frame[t].self])
              ELSE _cmd(tagger[frame[t].self]) \o <<"-encoding", frame[t].encoding>>

\* C6: every element of every tagged sentence batch_tag returns is a pair; an
\* output word that does not split into two parts makes the call fail instead.
C6_OnlyPairs ==
    \A t \in ThreadIds :
        pc[t] = "done"
        => \A i \in 1..Len(frame[t].tagged_sentences) :
             \A j \in 1..Len(frame[t].tagged_sentences[i]) :
                Len(frame[t].tagged_sentences[i][j]) = 2

\* C7, as stated: a constructor call whose model path names no file raises the
\* not-found error (IOError), whatever the other arguments; no instance exists
\* and no process was launched.
C7_MissingModel ==
    ctor.self # 0 /\ ctor.args.path_to_model \notin ModelFiles
    => /\ ctor.exc = "IOError"
       /\ tagger[ctor.self].cls = "none"
       /\ java_count = 0

\* C7, amended: a constructor call whose model path names no file fails, leaves no
\* instance and launches no process; it raises the not-found error (IOError)
\* when the jar is resolved, and the jar lookup's error (LookupError) when the
\* jar cannot be resolved either.
C7_MissingModelAfterJar ==
    ctor.self # 0 /\ ctor.args.path_to_model \notin ModelFiles
    => /\ ctor.exc = IF ctor.args.path_to_jar \in JarFiles THEN "IOError" ELSE "LookupError"
       /\ tagger[ctor.self].cls = "none"
       /\ java_count = 0

\* The constructor was called with a resolvable jar and a missing model.
C7_Witness ==
    /\ ctor.self # 0
    /\ ctor.args.path_to_model \notin ModelFiles
    /\ ctor.args.path_to_jar \in JarFiles
    /\ ctor.exc = "IOError"

What == <<"W", "h", "a", "t">>
WP == <<"W", "P">>
is == <<"i", "s">>
VBZ == <<"V", "B", "Z">>
Rami == <<"R", "a", "m", "i">>
Eid == <<"E", "i", "d">>
PERSON == <<"P", "E", "R", "S", "O", "N">>

\* The words token<SEP>tag of a sequence of pairs.
RECURSIVE TaggedWords(_, _)
TaggedWords(pairs, sep) ==
    IF pairs = <<>> THEN <<>>
    ELSE <<Head(pairs)[1] \o <<sep>> \o Head(pairs)[2]>> \o TaggedWords(Tail(pairs), sep)

\* Tokens and tags that hold no separator, and the lines of one or two pairs.
SomeParts == {<<>>, <<"a">>, <<"a", "a">>}
SomePairs == {<<tk, tag>> : tk \in SomeParts, tag \in SomeParts}
SomePairLists == {<<p>> : p \in SomePairs} \cup {<<p, q>> : p \in SomePairs, q \in SomePairs}
Gaps == {<<" ">>, <<" ", " ">>, <<"\t">>, <<"\r">>}
LineEnds == {<<>>, <<"\n">>, <<"\r", "\n">>}

\* The lines of such words under a profile, each with the pairs it is made of.
TaggedLines(cls) ==
    {[out |-> join(gap, TaggedWords(pairs, _SEPARATOR(cls))) \o end, pairs |-> pairs] :
        pairs \in SomePairLists, gap \in Gaps, end \in LineEnds}

POSLines == TaggedLines("POSTagger")
NERLines == TaggedLines("NERTagger")

\* The two documented lines, parsed as str and as unicode.
DocumentedLines ==
    \A ws \in {Whitespace, UnicodeWhitespace} :
        /\ parse_output(What \o <<"_">> \o WP \o <<" ">> \o is \o <<"_">> \o VBZ,
                        _SEPARATOR("POSTagger"), ws)
             = << <<  <<What, WP>>, <<is, VBZ>>  >> >>
        /\ parse_output(Rami \o <<"/">> \o PERSON \o <<" ">> \o Eid \o <<"/">> \o PERSON,
                        _SEPARATOR("NERTagger"), ws)
             = << <<  <<Rami, PERSON>>, <<Eid, PERSON>>  >> >>

\* C8: an output line of whitespace-separated words token<SEP>tag parses to the
\* (token, tag) pairs in the same order, under either profile; so do the two
\* lines 'What_WP is_VBZ' (POS) and 'Rami/PERSON Eid/PERSON' (NER).
C8_SeparatorFidelity ==
    /\ DocumentedLines
    /\ \A t \in ThreadIds :
         pc[t] = "done"
         => \A line \in (IF tagger[frame[t].self].cls = "POSTagger" THEN POSLines ELSE NERLines) :
              frame[t].stanpos_output = line.out
              => frame[t].tagged_sentences = <<line.pairs>>

\* A line of two tagged words, two spaces apart, was parsed.
C8_Witness ==
    \E t \in ThreadIds :
        /\ pc[t] = "done"
        /\ tagger[frame[t].self].cls = "NERTagger"
        /\ frame[t].stanpos_output = <<"/", " ", " ", "/">>
        /\ Len(frame[t].tagged_sentences[1]) = 2

\* The launch options an invocation asks for.
own_options(t) == config_java(tagger[frame[t].self].java_options)

\* Thread o has applied its options and not yet restored the saved ones.
Applied(o) == pc[o] \in {"mkstemp", "write", "java", "decode", "unlink", "restore"}

\* C9: when two invocations with different java_options overlap, (1) the one
\* that launches while the other's options are in force launches under the
\* other's options, and (2) when the invocation that began under the other's
\* options is the last to restore, the launch options after both have finished
\* are the other's options, not the value before either began.
C9_OptionsRace ==
    [][\A t \in ThreadIds : \A o \in ThreadIds \ {t} :
         /\ ( /\ pc[t] = "java" /\ ~frame[t].launched /\ frame'[t].launched
              /\ Applied(o)
              /\ own_options(o) # own_options(t)
              /\ _java_options = own_options(o)
              => frame'[t].launch_options = own_options(o) )
         /\ ( /\ pc[t] = "restore" /\ pc'[t] = "parse"
              /\ pc[o] \in {"parse", "done"}
              /\ own_options(o) # frame[o].entry_options
              /\ frame[t].entry_options = own_options(o)
              => /\ _java_options' = own_options(o)
                 /\ _java_options' # frame[o].entry_options )]_vars

\* Both invocations have finished: the one that began first launched under the
\* other's options, and the launch options are no longer what they were before
\* either began.
C9_Witness ==
    \E t \in ThreadIds : \E o \in ThreadIds \ {t} :
        /\ pc[t] = "done" /\ pc[o] = "done"
        /\ own_options(o) # own_options(t)
        /\ frame[t].entry_options = own_options(o)
        /\ frame[o].launch_options = own_options(t)
        /\ _java_options # frame[o].entry_options

\* The path in the launched command and the path deleted are the path of the
\* file this invocation created.
OwnsFile(f) ==
    /\ f.java_cmd # <<>> => f.java_cmd[5] = f._input_fh
    /\ f.unlinked # "" => f.unlinked = f._input_fh

\* C10, as stated: every invocation launches with and deletes its own file, also
\* when two invocations on the same adapter instance overlap.
C10_OwnFile == \A t \in ThreadIds : OwnsFile(frame[t])

\* C10, amended: an invocation launches with and deletes its own file provided no
\* other invocation on the same adapter instance is in flight during it;
\* invocations on different instances may overlap.
C10_OwnFileUnlessShared == \A t \in ThreadIds : ~frame[t].shared => OwnsFile(frame[t])

\* Two invocations on different instances are in flight together; each has
\* launched and deleted.
C10_Witness ==
    \E t \in ThreadIds : \E o \in ThreadIds \ {t} :
        /\ pc[t] = "restore" /\ pc[o] = "restore"
        /\ frame[t].self # frame[o].self
        /\ frame[t].unlinked # "" /\ frame[o].unlinked # ""
        /\ frame[t]._input_fh # frame[o]._input_fh

====
